---- MODULE Spec2Model ----
(***************************************************************************)
(* Model of the chord-chart compilers of chord_gen_python:                  *)
(*   src/generate_musicxml.py  (chart -> MusicXML measures)                 *)
(*   src/generate_midi.py      (chart -> MIDI tracks)                       *)
(* A string is a sequence of one-character strings, so that the parser's    *)
(* regular expression, strip() and lower() act on characters as in Python.  *)
(* A raised exception is a record with ok = FALSE that every caller passes  *)
(* on unchanged.                                                            *)
(***************************************************************************)
EXTENDS Integers, Sequences, FiniteSets, TLC

VARIABLES
    sym,          \* chord spec: the chord symbol handed to the chord functions
    harmony,      \* chord spec: result of _chord_to_harmony(sym)
    midi_notes,   \* chord spec: result of _chord_to_midi_notes(sym)
    chord_notes,  \* chord spec: <note> elements of _add_chord_notes for sym
    midi_one,     \* chord spec: result of generate_midi.build_midi_from_chords([sym])
    chart,        \* SONG_STRUCTURE: sequence of [name, chords]
    pc,           \* position of the running export program
    call,         \* the export operation called last
    exc,          \* <<>>, or <<e>> for the exception e that ended the run
    files         \* files written so far by this run: path -> document

chordVars == <<sym, harmony, midi_notes, chord_notes, midi_one>>
runVars == <<chart, pc, call, exc, files>>
vars == <<sym, harmony, midi_notes, chord_notes, midi_one, chart, pc, call, exc, files>>

----------------------------------------------------------------------------
(* Bounds of the model *)

\* longest chord symbol enumerated character by character
MaxSymLen == 3
\* most sections of a chart
MaxSections == 3
\* most bars of a chart, all sections together
MaxTotalBars == 3

----------------------------------------------------------------------------
(* Characters and strings *)

UpperCase == <<"A","B","C","D","E","F","G","H","I","J","K","L","M",
               "N","O","P","Q","R","S","T","U","V","W","X","Y","Z">>
LowerCase == <<"a","b","c","d","e","f","g","h","i","j","k","l","m",
               "n","o","p","q","r","s","t","u","v","w","x","y","z">>

\* the characters str.strip() removes (the ASCII ones)
Whitespace == {" ", "\t", "\n", "\r", "\f"}

\* str.lower() on one character
lower_char(c) ==
    IF \E i \in 1..26 : UpperCase[i] = c
    THEN LowerCase[CHOOSE i \in 1..26 : UpperCase[i] = c]
    ELSE c

\* str.upper() on one character
upper_char(c) ==
    IF \E i \in 1..26 : LowerCase[i] = c
    THEN UpperCase[CHOOSE i \in 1..26 : LowerCase[i] = c]
    ELSE c

lower(s) == [i \in 1..Len(s) |-> lower_char(s[i])]

RECURSIVE lstrip(_)
lstrip(s) ==
    IF Len(s) > 0 /\ s[1] \in Whitespace THEN lstrip(Tail(s)) ELSE s

RECURSIVE rstrip(_)
rstrip(s) ==
    IF Len(s) > 0 /\ s[Len(s)] \in Whitespace
    THEN rstrip(SubSeq(s, 1, Len(s) - 1))
    ELSE s

strip(s) == rstrip(lstrip(s))

----------------------------------------------------------------------------
(* generate_musicxml.py: constants *)

TEMPO_BPM == 80
TIME_NUM == 4
TIME_DEN == 4
KEY_FIFTHS == 0
CHORD_ROOT_OCTAVE == 3
INCLUDE_CHORD_NOTES == TRUE

----------------------------------------------------------------------------
(* generate_musicxml.py: chord symbol parser *)

RootLetters == {"A","B","C","D","E","F","G","a","b","c","d","e","f","g"}

\* re.match(r"^([A-Ga-g])([#b]?)(.*)$", s): <<>> for None, else <<groups>>.
\* "." matches any character but "\n"; "$" matches at the end of the string
\* and just before a "\n" that ends it. Giving back the accidental never
\* helps: the rest then holds the same line breaks.
re_tail(g1, g2, body) ==
    IF \E i \in 1..Len(body) : body[i] = "\n" THEN <<>>
    ELSE << [g1 |-> g1, g2 |-> g2, g3 |-> body] >>

re_rest(g1, g2, rest) ==
    re_tail(g1, g2, IF Len(rest) > 0 /\ rest[Len(rest)] = "\n"
                    THEN SubSeq(rest, 1, Len(rest) - 1)
                    ELSE rest)

re_accidental(s, n) == re_rest(s[1], SubSeq(s, 2, 1 + n), SubSeq(s, 2 + n, Len(s)))

re_match(s) ==
    IF Len(s) = 0 \/ s[1] \notin RootLetters THEN <<>>
    ELSE re_accidental(s, IF Len(s) >= 2 /\ s[2] \in {"#", "b"} THEN 1 ELSE 0)

\* str.startswith
startswith(s, p) == Len(s) >= Len(p) /\ SubSeq(s, 1, Len(p)) = p

\* kind_of_qual with each alternative tested by prefix instead of equality
kind_of_qual_prefix(qual) ==
    IF qual = <<>> \/ startswith(qual, <<"m","a","j">>) THEN "major"
    ELSE IF startswith(qual, <<"m">>) THEN "minor"
    ELSE IF startswith(qual, <<"7">>) \/ startswith(qual, <<"d","o","m","7">>) THEN "dominant"
    ELSE IF startswith(qual, <<"m","a","7">>) THEN "major-seventh"
    ELSE "major"

\* the if/elif chain on the (already lower-cased) quality
kind_of_qual(qual) ==
    IF qual \in { <<>>, <<"m","a","j">>, <<"m","a","j","o","r">> } THEN "major"
    ELSE IF qual \in { <<"m">>, <<"m","i","n">>, <<"m","i","n","o","r">> } THEN "minor"
    ELSE IF qual \in { <<"7">>, <<"d","o","m","7">> } THEN "dominant"
    ELSE IF qual \in { <<"m","a","j","7">>, <<"m","a","7">> } THEN "major-seventh"
    ELSE IF qual \in { <<"m","7">>, <<"m","i","n","7">> } THEN "minor-seventh"
    ELSE "major"

ValueError(chord) == [ok |-> FALSE, exc |-> "ValueError", arg |-> chord]
KeyError(key) == [ok |-> FALSE, exc |-> "KeyError", arg |-> key]

alter_of(accidental) ==
    IF accidental = <<"#">> THEN 1
    ELSE IF accidental = <<"b">> THEN -1
    ELSE 0

\* lines 59-87, given the match m
harmony_of_match(chord, m) ==
    IF m = <<>> THEN ValueError(chord)
    ELSE [ok |-> TRUE,
          step |-> upper_char(m[1].g1),
          alter |-> alter_of(m[1].g2),
          kind |-> kind_of_qual(lower(m[1].g3))]

\* _chord_to_harmony matching the symbol as given, without strip()
_chord_to_harmony_nostrip(chord) == harmony_of_match(chord, re_match(chord))

\* returns [ok, step, alter, kind], or the ValueError raised
_chord_to_harmony(chord) == harmony_of_match(chord, re_match(strip(chord)))

----------------------------------------------------------------------------
(* generate_musicxml.py: voicing and pitch naming *)

NoteNames == << <<"C">>, <<"C","#">>, <<"D">>, <<"D","#">>, <<"E">>, <<"F">>,
                <<"F","#">>, <<"G">>, <<"G","#">>, <<"A">>, <<"A","#">>, <<"B">> >>

pitch_of_name(name, octave) ==
    [step   |-> name[1],
     alter  |-> IF Len(name) = 2 /\ name[2] = "#" THEN 1 ELSE 0,
     octave |-> octave]

\* _midi_to_pitch with the "- 1" of the octave forgotten
_midi_to_pitch_octave(midi_note) ==
    pitch_of_name(NoteNames[(midi_note % 12) + 1], midi_note \div 12)

\* returns [step, alter, octave]
_midi_to_pitch(midi_note) ==
    pitch_of_name(NoteNames[(midi_note % 12) + 1], (midi_note \div 12) - 1)

step_to_pc == [s \in {"C","D","E","F","G","A","B"} |->
                 CASE s = "C" -> 0 [] s = "D" -> 2 [] s = "E" -> 4 [] s = "F" -> 5
                   [] s = "G" -> 7 [] s = "A" -> 9 [] s = "B" -> 11]

\* intervals_by_kind.get(kind, [0, 4, 7])
intervals_by_kind_get(kind) ==
    CASE kind = "major"         -> <<0, 4, 7>>
      [] kind = "minor"         -> <<0, 3, 7>>
      [] kind = "dominant"      -> <<0, 4, 7, 10>>
      [] kind = "major-seventh" -> <<0, 4, 7, 11>>
      [] kind = "minor-seventh" -> <<0, 3, 7, 10>>
      [] OTHER                  -> <<0, 4, 7>>

\* [root_midi + i for i in intervals]
voicing(root_midi, intervals) ==
    [k \in 1..Len(intervals) |-> root_midi + intervals[k]]

\* notes_of_harmony with the root one octave low (the "+ 1" dropped)
notes_of_harmony_octave(h) ==
    IF ~h.ok THEN h
    ELSE [ok |-> TRUE,
          notes |-> voicing(CHORD_ROOT_OCTAVE * 12 + (step_to_pc[h.step] + h.alter),
                            intervals_by_kind_get(h.kind))]

\* lines 134-148, given the parsed harmony h
notes_of_harmony(h) ==
    IF ~h.ok THEN h
    ELSE [ok |-> TRUE,
          notes |-> voicing((CHORD_ROOT_OCTAVE + 1) * 12 + (step_to_pc[h.step] + h.alter),
                            intervals_by_kind_get(h.kind))]

\* returns [ok, notes], or the parser's exception
_chord_to_midi_notes(chord_symbol) == notes_of_harmony(_chord_to_harmony(chord_symbol))

----------------------------------------------------------------------------
(* generate_musicxml.py: measure elements.  A measure is                    *)
(* [number, children]; children are the sub-elements in document order.     *)

NewMeasure(number) == [number |-> number, children |-> <<>>]

AddChild(measure, el) == [measure EXCEPT !.children = Append(@, el)]

_add_direction_words(measure, text) ==
    AddChild(measure, [tag |-> "direction", type |-> "words", text |-> text])

_add_tempo(measure, bpm) ==
    AddChild(measure, [tag |-> "direction", type |-> "metronome",
                       beat_unit |-> "quarter", per_minute |-> bpm, sound_tempo |-> bpm])

\* the <attributes> block both builders write into their first measure
add_attributes(measure, divisions) ==
    AddChild(measure, [tag |-> "attributes", divisions |-> divisions,
                       fifths |-> KEY_FIFTHS, mode |-> "major",
                       beats |-> TIME_NUM, beat_type |-> TIME_DEN,
                       clef_sign |-> IF INCLUDE_CHORD_NOTES THEN "F" ELSE "G",
                       clef_line |-> IF INCLUDE_CHORD_NOTES THEN 4 ELSE 2])

harmony_element(measure, h) ==
    IF ~h.ok THEN h
    ELSE [ok |-> TRUE,
          measure |-> AddChild(measure,
              [tag |-> "harmony", root_step |-> h.step,
               root_alter |-> IF h.alter # 0 THEN <<h.alter>> ELSE <<>>,
               kind |-> h.kind])]

\* returns [ok, measure], or the parser's exception
_add_harmony(measure, chord_symbol) ==
    harmony_element(measure, _chord_to_harmony(chord_symbol))

_add_whole_rest(measure, duration_divisions) ==
    AddChild(measure, [tag |-> "note", rest |-> TRUE, chord |-> FALSE, pitch |-> <<>>,
                       duration |-> duration_divisions * TIME_NUM,
                       voice |-> 1, type |-> "whole"])

pitch_element(p) ==
    [step |-> p.step,
     alter |-> IF p.alter # 0 THEN <<p.alter>> ELSE <<>>,
     octave |-> p.octave]

\* one pitched <note> of a chord: i is the 0-based position in the chord
pitched_note(i, midi_note, duration) ==
    [tag |-> "note", rest |-> FALSE, chord |-> (i > 0),
     pitch |-> << pitch_element(_midi_to_pitch(midi_note)) >>,
     duration |-> duration, voice |-> 1, type |-> "whole"]

chord_note_elements(measure, v, duration) ==
    IF ~v.ok THEN v
    ELSE [ok |-> TRUE,
          measure |-> [measure EXCEPT !.children =
              @ \o [k \in 1..Len(v.notes) |-> pitched_note(k - 1, v.notes[k], duration)]]]

\* returns [ok, measure], or the parser's exception
_add_chord_notes(measure, chord_symbol, duration_divisions) ==
    chord_note_elements(measure, _chord_to_midi_notes(chord_symbol),
                        duration_divisions * TIME_NUM)

notes_after_harmony(h, chord_symbol, divisions) ==
    IF ~h.ok THEN h
    ELSE IF INCLUDE_CHORD_NOTES
         THEN _add_chord_notes(h.measure, chord_symbol, divisions)
         ELSE [ok |-> TRUE, measure |-> _add_whole_rest(h.measure, divisions)]

\* lines 234-238 and 322-326: the harmony, then the notes or a whole rest
add_harmony_and_notes(measure, chord_symbol, divisions) ==
    notes_after_harmony(_add_harmony(measure, chord_symbol), chord_symbol, divisions)

\* lines 212-229 and 299-315: attributes and tempo, in a first measure only
first_measure_head(measure, is_first, divisions) ==
    IF is_first THEN _add_tempo(add_attributes(measure, divisions), TEMPO_BPM)
    ELSE measure

\* lines 231-232 and 320-321: the section label, on a section's first bar only
section_label(measure, is_section_start, section_name) ==
    IF is_section_start THEN _add_direction_words(measure, section_name)
    ELSE measure

----------------------------------------------------------------------------
(* generate_musicxml.py: build_musicxml, the single-stream layout *)

\* the two nested for loops: s, i are the 1-based positions in the sections
\* and in the section's chords; part, measure_no, first_measure are the
\* loop's variables
RECURSIVE build_musicxml_loop(_, _, _, _, _, _)
build_musicxml_step(sectioned_chords, s, i, part, measure_no, r) ==
    IF ~r.ok THEN r
    ELSE build_musicxml_loop(sectioned_chords, s, i + 1,
                             Append(part, r.measure), measure_no + 1, FALSE)

build_musicxml_loop(sectioned_chords, s, i, part, measure_no, first_measure) ==
    IF s > Len(sectioned_chords) THEN [ok |-> TRUE, part |-> part]
    ELSE IF i > Len(sectioned_chords[s].chords)
         THEN build_musicxml_loop(sectioned_chords, s + 1, 1, part, measure_no, first_measure)
    ELSE build_musicxml_step(sectioned_chords, s, i, part, measure_no,
             add_harmony_and_notes(
                 section_label(first_measure_head(NewMeasure(measure_no), first_measure, 1),
                               i - 1 = 0, sectioned_chords[s].name),
                 sectioned_chords[s].chords[i], 1))

single_part_doc(r, title) ==
    IF ~r.ok THEN r
    ELSE [ok |-> TRUE,
          doc |-> [title |-> title, parts |-> << [id |-> 1, measures |-> r.part] >>]]

\* build_musicxml numbering its measures from 0
build_musicxml_from0(sectioned_chords, title) ==
    single_part_doc(build_musicxml_loop(sectioned_chords, 1, 1, <<>>, 0, TRUE), title)

\* returns [ok, doc], or the parser's exception
build_musicxml(sectioned_chords, title) ==
    single_part_doc(build_musicxml_loop(sectioned_chords, 1, 1, <<>>, 1, TRUE), title)

----------------------------------------------------------------------------
(* generate_musicxml.py: build_musicxml_section_parts, one part per section *)

\* exception propagation out of a loop whose iterations gave rs, in order
Raised(rs) == \E k \in 1..Len(rs) : ~rs[k].ok
FirstRaised(rs) == rs[CHOOSE k \in 1..Len(rs) :
                        ~rs[k].ok /\ \A j \in 1..(k - 1) : rs[j].ok]

RECURSIVE SumLens(_)
SumLens(sectioned_chords) ==
    IF sectioned_chords = <<>> THEN 0
    ELSE Len(Head(sectioned_chords).chords) + SumLens(Tail(sectioned_chords))

\* section_part_measure with the window test start_bar < bar_index
section_part_measure_late(section_name, chords, start_bar, end_bar, measure_no) ==
    IF start_bar < measure_no - 1 /\ measure_no - 1 < end_bar
    THEN add_harmony_and_notes(
             section_label(first_measure_head(NewMeasure(measure_no), measure_no = 1, 1),
                           measure_no - 1 = start_bar, section_name),
             chords[((measure_no - 1) - start_bar) + 1], 1)
    ELSE [ok |-> TRUE,
          measure |-> _add_whole_rest(
              first_measure_head(NewMeasure(measure_no), measure_no = 1, 1), 1)]

\* the body of the inner loop (one measure of one part); bar_index is
\* measure_no - 1
section_part_measure(section_name, chords, start_bar, end_bar, measure_no) ==
    IF start_bar <= measure_no - 1 /\ measure_no - 1 < end_bar
    THEN add_harmony_and_notes(
             section_label(first_measure_head(NewMeasure(measure_no), measure_no = 1, 1),
                           measure_no - 1 = start_bar, section_name),
             chords[((measure_no - 1) - start_bar) + 1], 1)
    ELSE [ok |-> TRUE,
          measure |-> _add_whole_rest(
              first_measure_head(NewMeasure(measure_no), measure_no = 1, 1), 1)]

\* the outer loop over the sections, carrying bars_before and the parts
RECURSIVE section_parts_loop(_, _, _, _, _)
section_parts_step(sectioned_chords, idx, bars_before, total_bars, parts, rs) ==
    IF Raised(rs) THEN FirstRaised(rs)
    ELSE section_parts_loop(sectioned_chords, idx + 1,
             bars_before + Len(sectioned_chords[idx].chords), total_bars,
             Append(parts, [id |-> idx,
                            measures |-> [k \in 1..total_bars |-> rs[k].measure]]))

section_parts_loop(sectioned_chords, idx, bars_before, total_bars, parts) ==
    IF idx > Len(sectioned_chords) THEN [ok |-> TRUE, parts |-> parts]
    ELSE section_parts_step(sectioned_chords, idx, bars_before, total_bars, parts,
             [measure_no \in 1..total_bars |->
                 section_part_measure(sectioned_chords[idx].name,
                                      sectioned_chords[idx].chords,
                                      bars_before,
                                      bars_before + Len(sectioned_chords[idx].chords),
                                      measure_no)])

section_parts_doc(r, title) ==
    IF ~r.ok THEN r
    ELSE [ok |-> TRUE, doc |-> [title |-> title, parts |-> r.parts]]

\* returns [ok, doc], or the parser's exception
build_musicxml_section_parts(sectioned_chords, title) ==
    section_parts_doc(
        section_parts_loop(sectioned_chords, 1, 0, SumLens(sectioned_chords), <<>>),
        title)

----------------------------------------------------------------------------
(* generate_musicxml.py: the export operations.  Each returns              *)
(* [files, exc]: the files after the call and <<>> or the exception raised. *)

NoFiles == [p \in {} |-> {}]

\* open(path, "w") ... f.write(doc)
write(fs, path, doc) == (path :> doc) @@ fs

\* _slugify on the section names the charts use
_slugify(name) ==
    CASE name = "Intro"      -> "intro"
      [] name = "Verse 1"    -> "verse_1"
      [] name = "Pre-Chorus" -> "pre_chorus"
      [] name = "Chorus"     -> "chorus"
      [] OTHER               -> "segment"

Path(dir, idx, name) == [dir |-> dir, idx |-> idx, name |-> name]

\* lines 335-337, 342-344, 354-356: the document is written once it is built
write_built(fs, path, r) ==
    IF ~r.ok THEN [files |-> fs, exc |-> <<r>>]
    ELSE [files |-> write(fs, path, r.doc), exc |-> <<>>]

export_full_song(song, fs) ==
    write_built(fs, Path(".", 0, "over_the_years.musicxml"),
                build_musicxml(song, <<"Over the Years">>))

export_full_song_as_section_parts(song, fs) ==
    write_built(fs, Path(".", 0, "over_the_years_section_parts.musicxml"),
                build_musicxml_section_parts(song, <<"Over the Years (Section Parts)">>))

\* the for loop of export_segments from section idx on
RECURSIVE export_segments_loop(_, _, _)
export_segments_step(song, idx, w) ==
    IF w.exc # <<>> THEN w
    ELSE export_segments_loop(song, idx + 1, w.files)

export_segments_loop(song, idx, fs) ==
    IF idx > Len(song) THEN [files |-> fs, exc |-> <<>>]
    ELSE export_segments_step(song, idx,
             write_built(fs, Path("segments_xml", idx, _slugify(song[idx].name)),
                 build_musicxml(<<song[idx]>>, <<"Over the Years - ", song[idx].name>>)))

export_segments(song, fs) == export_segments_loop(song, 1, fs)

----------------------------------------------------------------------------
(* generate_midi.py: constants and messages *)

TEMPO == 80
TICKS_PER_BEAT == 480
BEATS_PER_BAR == 4
TICKS_PER_BAR == TICKS_PER_BEAT * BEATS_PER_BAR

\* the default of the velocity parameters
DefaultVelocity == 80

\* CHORDS[chord_name]: [ok, notes], or the KeyError of a missing key
CHORDS_getitem(chord_name) ==
    CASE chord_name = <<"C","m","a","j","7">> -> [ok |-> TRUE, notes |-> <<60, 64, 67, 71>>]
      [] chord_name = <<"A","m","7">>         -> [ok |-> TRUE, notes |-> <<57, 60, 64, 67>>]
      [] chord_name = <<"F","m","a","j","7">> -> [ok |-> TRUE, notes |-> <<53, 57, 60, 64>>]
      [] chord_name = <<"G">>                 -> [ok |-> TRUE, notes |-> <<55, 59, 62>>]
      [] OTHER                                -> KeyError(chord_name)

Message(type, note, velocity, time) ==
    [type |-> type, channel |-> 0, note |-> note, velocity |-> velocity, time |-> time]

TrackName(name) == [type |-> "track_name", name |-> name, time |-> 0]

_append_header(track) ==
    track \o << [type |-> "set_tempo", tempo |-> 60000000 \div TEMPO, time |-> 0],
                [type |-> "time_signature", numerator |-> 4, denominator |-> 4, time |-> 0],
                [type |-> "key_signature", key |-> "C", time |-> 0] >>

\* _format_progression_for_name(chords, group): the groups that " | " joins,
\* each the chords that " " joins
_format_progression_for_name(chords, group) ==
    IF chords = <<>> THEN <<>>
    ELSE IF group <= 0 THEN <<chords>>
    ELSE [g \in 1..((Len(chords) + group - 1) \div group) |->
             SubSeq(chords, (g - 1) * group + 1,
                    IF g * group < Len(chords) THEN g * group ELSE Len(chords))]

----------------------------------------------------------------------------
(* generate_midi.py: the chord blocks of a track *)

\* lines 102-111 with the offset given to every note-on of the first chord
\* (the test "j == 0" dropped)
note_ons_all(chord_notes_, velocity, start_offset_ticks, first_chord) ==
    [j \in 1..Len(chord_notes_) |->
        Message("note_on", chord_notes_[j], velocity,
                IF first_chord THEN start_offset_ticks ELSE 0)]

\* lines 102-111: the note-ons of one chord; j - 1 is the 0-based position
note_ons(chord_notes_, velocity, start_offset_ticks, first_chord) ==
    [j \in 1..Len(chord_notes_) |->
        Message("note_on", chord_notes_[j], velocity,
                IF first_chord /\ j - 1 = 0 THEN start_offset_ticks ELSE 0)]

\* lines 114-123 with one bar given to every note-off (the test "j == 0"
\* dropped)
note_offs_every(chord_notes_) ==
    [j \in 1..Len(chord_notes_) |->
        Message("note_off", chord_notes_[j], 0, TICKS_PER_BAR)]

\* lines 114-123 (and 80-89): the note-offs of one chord
note_offs(chord_notes_) ==
    [j \in 1..Len(chord_notes_) |->
        Message("note_off", chord_notes_[j], 0, IF j - 1 = 0 THEN TICKS_PER_BAR ELSE 0)]

\* returns [ok, track], or the KeyError of CHORDS
one_bar_events(track, c, velocity) ==
    IF ~c.ok THEN c
    ELSE [ok |-> TRUE,
          track |-> track \o note_ons(c.notes, velocity, 0, FALSE) \o note_offs(c.notes)]

_append_chord_for_one_bar(track, chord_name, velocity) ==
    one_bar_events(track, CHORDS_getitem(chord_name), velocity)

\* the for loop of _append_chords from chord k on
RECURSIVE append_chords_loop(_, _, _, _, _, _)
append_chords_step(track, chords, k, start_offset_ticks, velocity, first_chord, c) ==
    IF ~c.ok THEN c
    ELSE append_chords_loop(
             track \o note_ons(c.notes, velocity, start_offset_ticks, first_chord)
                   \o note_offs(c.notes),
             chords, k + 1, start_offset_ticks, velocity, FALSE)

append_chords_loop(track, chords, k, start_offset_ticks, velocity, first_chord) ==
    IF k > Len(chords) THEN [ok |-> TRUE, track |-> track]
    ELSE append_chords_step(track, chords, k, start_offset_ticks, velocity, first_chord,
                            CHORDS_getitem(chords[k]))

\* returns [ok, track], or the KeyError of CHORDS
_append_chords(track, chords, start_offset_ticks, velocity) ==
    IF chords = <<>> THEN [ok |-> TRUE, track |-> track]
    ELSE append_chords_loop(track, chords, 1, start_offset_ticks, velocity, TRUE)

\* lines 138-140: the closing note-off, and the file around the track
midi_file_of_track(r) ==
    IF ~r.ok THEN r
    ELSE [ok |-> TRUE,
          mid |-> [type |-> 1, ticks_per_beat |-> TICKS_PER_BEAT,
                   tracks |-> << Append(r.track, Message("note_off", 0, 0, 0)) >>]]

\* returns [ok, mid], or the KeyError of CHORDS
build_midi_from_chords(chords) ==
    midi_file_of_track(_append_chords(_append_header(<<>>), chords, 0, DefaultVelocity))

----------------------------------------------------------------------------
(* generate_midi.py: the export operations, each returning [files, exc] *)

\* mid.save(path) once the file is built
save_built(fs, path, r) ==
    IF ~r.ok THEN [files |-> fs, exc |-> <<r>>]
    ELSE [files |-> write(fs, path, r.mid), exc |-> <<>>]

\* all_chords after the extend() of every section from s on
RECURSIVE all_chords_from(_, _)
all_chords_from(song, s) ==
    IF s > Len(song) THEN <<>>
    ELSE song[s].chords \o all_chords_from(song, s + 1)

midi_export_full_song(song, fs) ==
    save_built(fs, Path(".", 0, "over_the_years.mid"),
               build_midi_from_chords(all_chords_from(song, 1)))

RECURSIVE midi_export_segments_loop(_, _, _)
midi_export_segments_step(song, idx, w) ==
    IF w.exc # <<>> THEN w
    ELSE midi_export_segments_loop(song, idx + 1, w.files)

midi_export_segments_loop(song, idx, fs) ==
    IF idx > Len(song) THEN [files |-> fs, exc |-> <<>>]
    ELSE midi_export_segments_step(song, idx,
             save_built(fs, Path("segments", idx, _slugify(song[idx].name)),
                        build_midi_from_chords(song[idx].chords)))

midi_export_segments(song, fs) == midi_export_segments_loop(song, 1, fs)

\* marker_message timed by the section's own bars instead of the previous one's
marker_message_own(idx, section_name, nbars, first, prev_section_bars) ==
    [type |-> "marker",
     text |-> [idx |-> idx, name |-> section_name, bars |-> nbars],
     time |-> IF first THEN 0 ELSE nbars * TICKS_PER_BAR]

\* lines 190-196: the marker f"{idx:02d} {section_name} ({nbars} bars)"
marker_message(idx, section_name, nbars, first, prev_section_bars) ==
    [type |-> "marker",
     text |-> [idx |-> idx, name |-> section_name, bars |-> nbars],
     time |-> IF first THEN 0 ELSE prev_section_bars * TICKS_PER_BAR]

\* lines 187-198: the marker loop from section idx on
RECURSIVE markers_loop(_, _, _, _, _)
markers_loop(marker_track, song, idx, prev_section_bars, first) ==
    IF idx > Len(song) THEN marker_track
    ELSE markers_loop(
             Append(marker_track,
                    marker_message(idx, song[idx].name, Len(song[idx].chords),
                                   first, prev_section_bars)),
             song, idx + 1, Len(song[idx].chords), FALSE)

markers_file(marker_track, r) ==
    IF ~r.ok THEN r
    ELSE [ok |-> TRUE,
          mid |-> [type |-> 1, ticks_per_beat |-> TICKS_PER_BEAT,
                   tracks |-> <<marker_track, r.track>>]]

export_full_song_with_markers(song, fs) ==
    save_built(fs, Path(".", 0, "over_the_years_with_markers.mid"),
        markers_file(
            markers_loop(_append_header(<<TrackName("Markers")>>), song, 1, 0, TRUE),
            _append_chords(<<TrackName("Chords")>>, all_chords_from(song, 1),
                           0, DefaultVelocity)))

\* lines 222-238: the loop over the sections, carrying bars_before and the tracks
RECURSIVE section_tracks_loop(_, _, _, _)
\* line 238 dropped: bars_before is not advanced past the section
section_tracks_step_stay(song, idx, bars_before, tracks, r) ==
    IF ~r.ok THEN r
    ELSE section_tracks_loop(song, idx + 1, bars_before, Append(tracks, r.track))

section_tracks_step(song, idx, bars_before, tracks, r) ==
    IF ~r.ok THEN r
    ELSE section_tracks_loop(song, idx + 1, bars_before + Len(song[idx].chords),
                             Append(tracks, r.track))

section_tracks_loop(song, idx, bars_before, tracks) ==
    IF idx > Len(song) THEN [ok |-> TRUE, tracks |-> tracks]
    ELSE section_tracks_step(song, idx, bars_before, tracks,
             _append_chords(
                 << TrackName([idx |-> idx, name |-> song[idx].name,
                               progression |-> _format_progression_for_name(song[idx].chords, 4)]) >>,
                 song[idx].chords, bars_before * TICKS_PER_BAR, DefaultVelocity))

section_tracks_file(r) ==
    IF ~r.ok THEN r
    ELSE [ok |-> TRUE,
          mid |-> [type |-> 1, ticks_per_beat |-> TICKS_PER_BEAT, tracks |-> r.tracks]]

export_full_song_as_section_tracks(song, fs) ==
    save_built(fs, Path(".", 0, "over_the_years_section_tracks.mid"),
        section_tracks_file(
            section_tracks_loop(song, 1, 0, << _append_header(<<TrackName("Song Info")>>) >>)))

----------------------------------------------------------------------------
(* Charts *)

SectionNames == <<"Intro", "Verse 1", "Pre-Chorus", "Chorus">>

S_Am7 == <<"A","m","7">>
S_G == <<"G">>
S_Cmaj7 == <<"C","m","a","j","7">>
S_Fmaj7 == <<"F","m","a","j","7">>
S_7b3 == <<"7","b","3">>

\* chord symbols of the charts: two keys of CHORDS, of four and of three
\* notes, and a symbol that does not parse and is no key of CHORDS
ChartSymbols == {S_Am7, S_G, S_7b3}

RECURSIVE SumTo(_, _)
SumTo(lens, k) == IF k = 0 THEN 0 ELSE lens[k] + SumTo(lens, k - 1)

\* the chart whose sections have the lengths lens and whose bars, in order, are flat
MkChart(flat, lens) ==
    [k \in 1..Len(lens) |->
        [name |-> SectionNames[k],
         chords |-> SubSeq(flat, SumTo(lens, k - 1) + 1, SumTo(lens, k))]]

\* every chart of at most MaxSections sections (empty ones included) and at
\* most MaxTotalBars bars over the symbols
Charts(symbols) ==
    {MkChart(q[1], q[2]) :
        q \in {x \in (UNION {[1..n -> symbols] : n \in 0..MaxTotalBars})
                     \X (UNION {[1..k -> 0..MaxTotalBars] : k \in 0..MaxSections}) :
                 SumTo(x[2], Len(x[2])) = Len(x[1])}}

----------------------------------------------------------------------------
(* The generators as programs.  A run is one call of an export operation of *)
(* either module on the chart, or the main of either module calling its     *)
(* operations in order; an exception ends the run.                          *)

ChordIdle ==
    /\ sym = <<>>
    /\ harmony = <<>>
    /\ midi_notes = <<>>
    /\ chord_notes = <<>>
    /\ midi_one = <<>>

Init ==
    /\ chart \in Charts(ChartSymbols)
    /\ pc = "start"
    /\ call = "none"
    /\ exc = <<>>
    /\ files = NoFiles
    /\ ChordIdle

\* the state after an export operation gave r, at position next of the program
Ran(name, r, next) ==
    /\ call' = name
    /\ files' = r.files
    /\ exc' = r.exc
    /\ pc' = IF r.exc # <<>> THEN "raised" ELSE next
    /\ UNCHANGED <<chart, chordVars>>

(* generate_musicxml.py *)

ExportFullSong ==
    /\ pc = "start"
    /\ Ran("musicxml.export_full_song", export_full_song(chart, files), "returned")

ExportFullSongAsSectionParts ==
    /\ pc = "start"
    /\ Ran("musicxml.export_full_song_as_section_parts",
           export_full_song_as_section_parts(chart, files), "returned")

ExportSegments ==
    /\ pc = "start"
    /\ Ran("musicxml.export_segments", export_segments(chart, files), "returned")

MainExportFullSong ==
    /\ pc = "start"
    /\ Ran("musicxml.main:export_full_song", export_full_song(chart, files), "xml_main_1")

MainExportFullSongAsSectionParts ==
    /\ pc = "xml_main_1"
    /\ Ran("musicxml.main:export_full_song_as_section_parts",
           export_full_song_as_section_parts(chart, files), "xml_main_2")

MainExportSegments ==
    /\ pc = "xml_main_2"
    /\ Ran("musicxml.main:export_segments", export_segments(chart, files), "returned")

(* generate_midi.py *)

MidiExportFullSong ==
    /\ pc = "start"
    /\ Ran("midi.export_full_song", midi_export_full_song(chart, files), "returned")

MidiExportFullSongWithMarkers ==
    /\ pc = "start"
    /\ Ran("midi.export_full_song_with_markers",
           export_full_song_with_markers(chart, files), "returned")

MidiExportFullSongAsSectionTracks ==
    /\ pc = "start"
    /\ Ran("midi.export_full_song_as_section_tracks",
           export_full_song_as_section_tracks(chart, files), "returned")

MidiExportSegments ==
    /\ pc = "start"
    /\ Ran("midi.export_segments", midi_export_segments(chart, files), "returned")

MidiMainExportFullSong ==
    /\ pc = "start"
    /\ Ran("midi.main:export_full_song", midi_export_full_song(chart, files), "midi_main_1")

MidiMainExportFullSongWithMarkers ==
    /\ pc = "midi_main_1"
    /\ Ran("midi.main:export_full_song_with_markers",
           export_full_song_with_markers(chart, files), "midi_main_2")

MidiMainExportFullSongAsSectionTracks ==
    /\ pc = "midi_main_2"
    /\ Ran("midi.main:export_full_song_as_section_tracks",
           export_full_song_as_section_tracks(chart, files), "midi_main_3")

MidiMainExportSegments ==
    /\ pc = "midi_main_3"
    /\ Ran("midi.main:export_segments", midi_export_segments(chart, files), "returned")

Next ==
    \/ ExportFullSong
    \/ ExportFullSongAsSectionParts
    \/ ExportSegments
    \/ MainExportFullSong
    \/ MainExportFullSongAsSectionParts
    \/ MainExportSegments
    \/ MidiExportFullSong
    \/ MidiExportFullSongWithMarkers
    \/ MidiExportFullSongAsSectionTracks
    \/ MidiExportSegments
    \/ MidiMainExportFullSong
    \/ MidiMainExportFullSongWithMarkers
    \/ MidiMainExportFullSongAsSectionTracks
    \/ MidiMainExportSegments

Spec == Init /\ [][Next]_vars

----------------------------------------------------------------------------
(* The chord functions applied to one chord symbol *)

\* characters of the symbols enumerated exhaustively up to MaxSymLen
SymAlphabet == {"A", "g", "#", "b", "m", "7", " ", "\n"}

Qualities ==
    { <<>>, <<"m","a","j">>, <<"m","a","j","o","r">>,
      <<"m">>, <<"m","i","n">>, <<"m","i","n","o","r">>,
      <<"7">>, <<"d","o","m","7">>,
      <<"m","a","j","7">>, <<"m","a","7">>,
      <<"m","7">>, <<"m","i","n","7">>,
      <<"M">>, <<"M","7">>, <<"M","A","J","7">>, <<"M","i","n">>, <<"D","o","m","7">>,
      <<"s","u","s","4">>, <<"d","i","m">>, <<"9">>, <<"m","7","b","5">>,
      <<"m","a","j","9">>, <<"m","a","j"," ","7">> }

Accidentals == { <<>>, <<"#">>, <<"b">> }

\* every root, accidental and quality; the same with white space around for
\* two roots; symbols with no root letter; and every short string
ChordInputs ==
    {<<r>> \o a \o q : r \in RootLetters, a \in Accidentals, q \in Qualities}
    \cup {pre \o <<r>> \o a \o q \o post :
             pre \in {<<>>, <<" ">>}, r \in {"A", "e"}, a \in Accidentals,
             q \in Qualities, post \in {<<>>, <<" ">>, <<"\n">>, <<"\n","7">>}}
    \cup {S_7b3, <<"H">>, <<"h","m">>, <<"#","C">>, <<"1","A">>}
    \cup UNION {[1..n -> SymAlphabet] : n \in 0..MaxSymLen}

InitChord ==
    /\ sym \in ChordInputs
    /\ harmony = <<>>
    /\ midi_notes = <<>>
    /\ chord_notes = <<>>
    /\ midi_one = <<>>
    /\ chart = <<>>
    /\ pc = "start"
    /\ call = "none"
    /\ exc = <<>>
    /\ files = NoFiles

ChordToHarmony ==
    /\ harmony = <<>>
    /\ harmony' = << _chord_to_harmony(sym) >>
    /\ UNCHANGED <<sym, midi_notes, chord_notes, midi_one, runVars>>

ChordToMidiNotes ==
    /\ midi_notes = <<>>
    /\ midi_notes' = << _chord_to_midi_notes(sym) >>
    /\ UNCHANGED <<sym, harmony, chord_notes, midi_one, runVars>>

AddChordNotes ==
    /\ chord_notes = <<>>
    /\ chord_notes' = << _add_chord_notes(NewMeasure(1), sym, 1) >>
    /\ UNCHANGED <<sym, harmony, midi_notes, midi_one, runVars>>

BuildMidiFromChords ==
    /\ midi_one = <<>>
    /\ midi_one' = << build_midi_from_chords(<<sym>>) >>
    /\ UNCHANGED <<sym, harmony, midi_notes, chord_notes, runVars>>

NextChord ==
    \/ ChordToHarmony
    \/ ChordToMidiNotes
    \/ AddChordNotes
    \/ BuildMidiFromChords

SpecChord == InitChord /\ [][NextChord]_vars

----------------------------------------------------------------------------
(* Vocabulary of the properties *)

XmlFullPath == Path(".", 0, "over_the_years.musicxml")
XmlPartsPath == Path(".", 0, "over_the_years_section_parts.musicxml")
MidiFullPath == Path(".", 0, "over_the_years.mid")
MidiMarkersPath == Path(".", 0, "over_the_years_with_markers.mid")
MidiTracksPath == Path(".", 0, "over_the_years_section_tracks.mid")

Written(path) == path \in DOMAIN files

\* bars of the sections before section k (1-based)
RECURSIVE BarsBeforeSection(_, _)
BarsBeforeSection(song, k) ==
    IF k <= 1 THEN 0
    ELSE BarsBeforeSection(song, k - 1) + Len(song[k - 1].chords)

ChartBars(song) == BarsBeforeSection(song, Len(song) + 1)

\* absolute tick of message i of a track: the running sum of the delta times
RECURSIVE AbsTick(_, _)
AbsTick(track, i) == IF i = 0 THEN 0 ELSE AbsTick(track, i - 1) + track[i].time

IsMarker(msg) == msg.type = "marker"
IsNoteOn(msg) == msg.type = "note_on"
IsNoteOff(msg) == msg.type = "note_off"

\* position in the track of its k-th message of the kind
KthMarker(track, k) ==
    CHOOSE i \in 1..Len(track) :
        /\ IsMarker(track[i])
        /\ Cardinality({j \in 1..i : IsMarker(track[j])}) = k

\* number of chord groups of a track: the runs of note-ons
ChordGroups(track) ==
    Cardinality({i \in 1..Len(track) :
        IsNoteOn(track[i]) /\ (i = 1 \/ ~IsNoteOn(track[i - 1]))})

IsHarmony(el) == el.tag = "harmony"
IsNote(el) == el.tag = "note"
IsPitched(el) == el.tag = "note" /\ ~el.rest
IsWords(el) == el.tag = "direction" /\ el.type = "words"

Harmonies(measure) == SelectSeq(measure.children, IsHarmony)
Notes(measure) == SelectSeq(measure.children, IsNote)
PitchedNotes(measure) == SelectSeq(measure.children, IsPitched)
Labels(measure) == SelectSeq(measure.children, IsWords)

WholeRest == [tag |-> "note", rest |-> TRUE, chord |-> FALSE, pitch |-> <<>>,
              duration |-> 4, voice |-> 1, type |-> "whole"]

----------------------------------------------------------------------------
(* C1: in the file of export_full_song_with_markers the marker track holds  *)
(* exactly one marker per section, in chart order; the absolute tick of     *)
(* section k's marker is (bars of the sections before k) x TICKS_PER_BAR,   *)
(* and its text carries the section's name and bar count.                   *)
C1_MarkerTicks ==
    Written(MidiMarkersPath) =>
        LET track == files[MidiMarkersPath].tracks[1]
        IN  /\ Cardinality({i \in 1..Len(track) : IsMarker(track[i])}) = Len(chart)
            /\ \A k \in 1..Len(chart) :
                 /\ track[KthMarker(track, k)].text.idx = k
                 /\ track[KthMarker(track, k)].text.name = chart[k].name
                 /\ track[KthMarker(track, k)].text.bars = Len(chart[k].chords)
                 /\ AbsTick(track, KthMarker(track, k))
                        = BarsBeforeSection(chart, k) * TICKS_PER_BAR

\* the marker file of a chart of three sections, none empty
C1_Witness ==
    /\ Written(MidiMarkersPath)
    /\ Len(chart) = 3
    /\ \A k \in 1..3 : Len(chart[k].chords) > 0

----------------------------------------------------------------------------
(* C2: in the file of export_full_song_as_section_parts there is one part   *)
(* per section; a bar outside the part's window holds only a whole rest (no *)
(* harmony, no pitched note, no section label), and bar g inside the window *)
(* holds the harmony and the pitched notes of measure g + 1 of the          *)
(* single-stream file of the same chart.                                    *)
C2_SectionPartsMatchSingleStream ==
    (Written(XmlFullPath) /\ Written(XmlPartsPath)) =>
        /\ Len(files[XmlPartsPath].parts) = Len(chart)
        /\ \A p \in 1..Len(chart) : \A g \in 0..(ChartBars(chart) - 1) :
             IF /\ BarsBeforeSection(chart, p) <= g
                /\ g < BarsBeforeSection(chart, p) + Len(chart[p].chords)
             THEN /\ Harmonies(files[XmlPartsPath].parts[p].measures[g + 1])
                       = Harmonies(files[XmlFullPath].parts[1].measures[g + 1])
                  /\ Len(Harmonies(files[XmlPartsPath].parts[p].measures[g + 1])) = 1
                  /\ Notes(files[XmlPartsPath].parts[p].measures[g + 1])
                       = Notes(files[XmlFullPath].parts[1].measures[g + 1])
                  /\ PitchedNotes(files[XmlPartsPath].parts[p].measures[g + 1]) # <<>>
             ELSE /\ Harmonies(files[XmlPartsPath].parts[p].measures[g + 1]) = <<>>
                  /\ Labels(files[XmlPartsPath].parts[p].measures[g + 1]) = <<>>
                  /\ Notes(files[XmlPartsPath].parts[p].measures[g + 1]) = <<WholeRest>>

\* both files of a chart of three sections of one bar, with two different chords
C2_Witness ==
    /\ Written(XmlFullPath)
    /\ Written(XmlPartsPath)
    /\ Len(chart) = 3
    /\ \A k \in 1..3 : Len(chart[k].chords) = 1
    /\ chart[1].chords # chart[2].chords

----------------------------------------------------------------------------
(* C3: every layout that is written has as many bars as the chart: the      *)
(* single-stream MusicXML part has ChartBars measures numbered 1..ChartBars,*)
(* every part of the section-parts layout has ChartBars measures, and the   *)
(* chord track of export_full_song and of export_full_song_with_markers     *)
(* (MIDI) has ChartBars chord groups lasting ChartBars bars.                *)
C3_TotalBars ==
    /\ Written(XmlFullPath) =>
         /\ Len(files[XmlFullPath].parts) = 1
         /\ Len(files[XmlFullPath].parts[1].measures) = ChartBars(chart)
         /\ \A n \in 1..ChartBars(chart) :
              files[XmlFullPath].parts[1].measures[n].number = n
    /\ Written(XmlPartsPath) =>
         \A p \in 1..Len(files[XmlPartsPath].parts) :
              /\ Len(files[XmlPartsPath].parts[p].measures) = ChartBars(chart)
              /\ \A n \in 1..ChartBars(chart) :
                   files[XmlPartsPath].parts[p].measures[n].number = n
    /\ Written(MidiFullPath) =>
         /\ ChordGroups(files[MidiFullPath].tracks[1]) = ChartBars(chart)
         /\ AbsTick(files[MidiFullPath].tracks[1], Len(files[MidiFullPath].tracks[1]))
                = ChartBars(chart) * TICKS_PER_BAR
    /\ Written(MidiMarkersPath) =>
         /\ ChordGroups(files[MidiMarkersPath].tracks[2]) = ChartBars(chart)
         /\ AbsTick(files[MidiMarkersPath].tracks[2], Len(files[MidiMarkersPath].tracks[2]))
                = ChartBars(chart) * TICKS_PER_BAR

\* both MusicXML layouts of a chart of three bars in two sections and an empty one
C3_Witness ==
    /\ Written(XmlFullPath)
    /\ Written(XmlPartsPath)
    /\ Len(chart) = 3
    /\ ChartBars(chart) = 3
    /\ Len(chart[2].chords) = 0

\* the two MIDI chord tracks of a chart of three bars in three sections
C3_WitnessMidi ==
    /\ Written(MidiFullPath)
    /\ Written(MidiMarkersPath)
    /\ Len(chart) = 3
    /\ \A k \in 1..3 : Len(chart[k].chords) = 1

----------------------------------------------------------------------------
(* Vocabulary of the MIDI track properties *)

\* the MIDI files among the files written
MidiPaths == {p \in DOMAIN files : "tracks" \in DOMAIN files[p]}

\* start_offset_ticks of track n of the file at path: the bars before the
\* section for a section track (track 1 there is the header track), else 0
StartOffsetOf(path, n) ==
    IF path = MidiTracksPath /\ n >= 2
    THEN BarsBeforeSection(chart, n - 1) * TICKS_PER_BAR
    ELSE 0

\* among the note-offs only the one that follows a note-on (the first of its
\* chord) has TICKS_PER_BAR, the others 0
NoteOffsRelease(track) ==
    \A i \in 1..Len(track) :
        IsNoteOff(track[i]) =>
            track[i].time = IF i > 1 /\ IsNoteOn(track[i - 1]) THEN TICKS_PER_BAR ELSE 0

FirstNoteOn(track, i) ==
    IsNoteOn(track[i]) /\ \A j \in 1..(i - 1) : ~IsNoteOn(track[j])

\* every note-on has delta 0, but the first of the track, which has offset
NoteOnsAfterOffset(track, offset) ==
    \A i \in 1..Len(track) :
        IsNoteOn(track[i]) =>
            track[i].time = IF FirstNoteOn(track, i) THEN offset ELSE 0

----------------------------------------------------------------------------
(* C4 as stated: in every MIDI track written, every note-on has delta-tick  *)
(* 0, and among the note-offs of a chord only the first has TICKS_PER_BAR.  *)
C4_AllNoteOnsDeltaZero ==
    \A p \in MidiPaths : \A n \in 1..Len(files[p].tracks) :
        /\ \A i \in 1..Len(files[p].tracks[n]) :
             IsNoteOn(files[p].tracks[n][i]) => files[p].tracks[n][i].time = 0
        /\ NoteOffsRelease(files[p].tracks[n])

(* C4 amended: in every MIDI track written, every note-on has delta-tick 0  *)
(* except the first note-on of the track, whose delta-tick is the track's   *)
(* start_offset_ticks (the bars before the section x TICKS_PER_BAR in a     *)
(* section track, 0 elsewhere); among the note-offs of a chord only the     *)
(* first has TICKS_PER_BAR and the others 0.  _append_chord_for_one_bar     *)
(* gives every note-on 0.                                                   *)
C4_NoteOnsZeroAfterOffset ==
    /\ \A p \in MidiPaths : \A n \in 1..Len(files[p].tracks) :
          /\ NoteOnsAfterOffset(files[p].tracks[n], StartOffsetOf(p, n))
          /\ NoteOffsRelease(files[p].tracks[n])
    /\ \A c \in {S_Cmaj7, S_Am7, S_Fmaj7, S_G} :
          /\ NoteOnsAfterOffset(_append_chord_for_one_bar(<<>>, c, DefaultVelocity).track, 0)
          /\ NoteOffsRelease(_append_chord_for_one_bar(<<>>, c, DefaultVelocity).track)

\* section tracks written for a chart whose second section has two chords
\* after a first section of one bar
C4_Witness ==
    /\ Written(MidiTracksPath)
    /\ Len(chart) >= 2
    /\ Len(chart[1].chords) = 1
    /\ Len(chart[2].chords) = 2
    /\ \E i \in 1..Len(files[MidiTracksPath].tracks[3]) :
          /\ IsNoteOn(files[MidiTracksPath].tracks[3][i])
          /\ files[MidiTracksPath].tracks[3][i].time = TICKS_PER_BAR

----------------------------------------------------------------------------
(* Vocabulary of the chord symbol properties *)

StartsWithRoot(s) == Len(s) >= 1 /\ s[1] \in RootLetters

\* the upper-cased root letter
RootName(c) ==
    CASE c \in {"A", "a"} -> "A" [] c \in {"B", "b"} -> "B" [] c \in {"C", "c"} -> "C"
      [] c \in {"D", "d"} -> "D" [] c \in {"E", "e"} -> "E" [] c \in {"F", "f"} -> "F"
      [] c \in {"G", "g"} -> "G"

\* +1 for "#", -1 for "b" after the root letter, 0 otherwise
AlterationOf(s) ==
    IF Len(s) >= 2 /\ s[2] = "#" THEN 1
    ELSE IF Len(s) >= 2 /\ s[2] = "b" THEN -1
    ELSE 0

\* the characters after the root letter and the accidental
Remainder(s) ==
    SubSeq(s, IF Len(s) >= 2 /\ s[2] \in {"#", "b"} THEN 3 ELSE 2, Len(s))

\* s without its leading and trailing white space
Trim(s) ==
    LET keep == {i \in 1..Len(s) : s[i] \notin Whitespace}
    IN  IF keep = {} THEN <<>>
        ELSE SubSeq(s, CHOOSE i \in keep : \A j \in keep : i <= j,
                       CHOOSE i \in keep : \A j \in keep : j <= i)

HasLineBreak(s) == \E i \in 1..Len(s) : s[i] = "\n"

\* the quality table of the parser, on the case-folded remainder
QualityOf(q) ==
    CASE q \in { <<>>, <<"m","a","j">>, <<"m","a","j","o","r">> }    -> "major"
      [] q \in { <<"m">>, <<"m","i","n">>, <<"m","i","n","o","r">> } -> "minor"
      [] q \in { <<"7">>, <<"d","o","m","7">> }                      -> "dominant-seventh"
      [] q \in { <<"m","a","j","7">>, <<"m","a","7">> }              -> "major-seventh"
      [] q \in { <<"m","7">>, <<"m","i","n","7">> }                  -> "minor-seventh"
      [] OTHER                                                       -> "major"

\* the MusicXML kind value that stands for a quality
KindValue(quality) == IF quality = "dominant-seventh" THEN "dominant" ELSE quality

PitchClass(step) ==
    CASE step = "C" -> 0 [] step = "D" -> 2 [] step = "E" -> 4 [] step = "F" -> 5
      [] step = "G" -> 7 [] step = "A" -> 9 [] step = "B" -> 11

\* the intervals of a quality above the root
IntervalsOf(kind) ==
    CASE kind = "major"         -> <<0, 4, 7>>
      [] kind = "minor"         -> <<0, 3, 7>>
      [] kind = "dominant"      -> <<0, 4, 7, 10>>
      [] kind = "major-seventh" -> <<0, 4, 7, 11>>
      [] kind = "minor-seventh" -> <<0, 3, 7, 10>>

----------------------------------------------------------------------------
(* C5 as stated: _chord_to_harmony raises the error naming the string       *)
(* exactly when the string does not start with a root letter; otherwise it  *)
(* returns the upper-cased root and the alteration of the accidental.       *)
C5_FailsIffNoLeadingRoot ==
    harmony # <<>> =>
        IF StartsWithRoot(sym)
        THEN /\ harmony[1].ok
             /\ harmony[1].step = RootName(sym[1])
             /\ harmony[1].alter = AlterationOf(sym)
        ELSE harmony[1] = [ok |-> FALSE, exc |-> "ValueError", arg |-> sym]

(* C5 amended: _chord_to_harmony raises the error naming the string exactly *)
(* when the string, with its leading and trailing white space removed,      *)
(* does not start with a root letter A-G (either case) or holds a line      *)
(* break after it; otherwise it returns the upper-cased root letter and     *)
(* the alteration +1 for "#", -1 for "b", 0 otherwise.                      *)
C5_FailsIffNoRootAfterTrim ==
    harmony # <<>> =>
        IF StartsWithRoot(Trim(sym)) /\ ~HasLineBreak(Trim(sym))
        THEN /\ harmony[1].ok
             /\ harmony[1].step = RootName(Trim(sym)[1])
             /\ harmony[1].alter = AlterationOf(Trim(sym))
        ELSE harmony[1] = [ok |-> FALSE, exc |-> "ValueError", arg |-> sym]

\* a symbol with leading white space, parsed to a flat root
C5_Witness ==
    /\ harmony # <<>>
    /\ Len(sym) >= 1
    /\ sym[1] \in Whitespace
    /\ harmony[1].ok
    /\ harmony[1].alter = -1

----------------------------------------------------------------------------
(* C6 as stated: for a symbol that starts with a root letter and parses,    *)
(* the kind is the quality of the case-folded remainder of the symbol after *)
(* root and accidental, by exact match.                                     *)
C6_QualityOfRemainder ==
    (harmony # <<>> /\ harmony[1].ok /\ StartsWithRoot(sym)) =>
        harmony[1].kind = KindValue(QualityOf(lower(Remainder(sym))))

(* C6 amended: for every symbol the parser accepts, the kind is the quality *)
(* of the case-folded remainder, after root and accidental, of the symbol   *)
(* with its leading and trailing white space removed, by exact match (any   *)
(* other remainder: major); "G" gives (G, 0, major) and "Am7" gives         *)
(* (A, 0, minor-seventh).                                                   *)
C6_QualityOfTrimmedRemainder ==
    /\ (harmony # <<>> /\ harmony[1].ok) =>
          harmony[1].kind = KindValue(QualityOf(lower(Remainder(Trim(sym)))))
    /\ (harmony # <<>> /\ sym = S_G) =>
          harmony[1] = [ok |-> TRUE, step |-> "G", alter |-> 0, kind |-> "major"]
    /\ (harmony # <<>> /\ sym = S_Am7) =>
          harmony[1] = [ok |-> TRUE, step |-> "A", alter |-> 0, kind |-> "minor-seventh"]

\* a minor-seventh symbol in upper case followed by white space
C6_Witness ==
    /\ harmony # <<>>
    /\ harmony[1].ok
    /\ harmony[1].kind = "minor-seventh"
    /\ Len(sym) >= 1
    /\ sym[Len(sym)] \in Whitespace
    /\ \E i \in 1..Len(sym) : sym[i] = "M"

----------------------------------------------------------------------------
(* C8: for every symbol the parser accepts, both generators produce a       *)
(* pitch set: _chord_to_midi_notes returns notes (the major triad above the *)
(* root when the quality is not a recognized one), and the MIDI generator's *)
(* build_midi_from_chords returns a file.                                   *)
C8_VoicingNeverFails ==
    (harmony # <<>> /\ harmony[1].ok) =>
        /\ midi_notes # <<>> =>
              /\ midi_notes[1].ok
              /\ QualityOf(lower(Remainder(Trim(sym)))) = "major" =>
                    \A k \in 1..3 :
                        midi_notes[1].notes[k] - midi_notes[1].notes[1] = <<0, 4, 7>>[k]
        /\ midi_one # <<>> => midi_one[1].ok

----------------------------------------------------------------------------
(* C9: every pitch number n of _chord_to_midi_notes is written by           *)
(* _add_chord_notes as the (step, alter, octave) of _midi_to_pitch(n) with  *)
(* (octave + 1) x 12 + pitch_class(step) + alter = n and alter 0 or +1.     *)
C9_PitchRoundTrip ==
    (midi_notes # <<>> /\ midi_notes[1].ok /\ chord_notes # <<>>) =>
        /\ chord_notes[1].ok
        /\ Len(chord_notes[1].measure.children) = Len(midi_notes[1].notes)
        /\ \A k \in 1..Len(midi_notes[1].notes) :
             LET el == chord_notes[1].measure.children[k].pitch[1]
                 alter == IF el.alter = <<>> THEN 0 ELSE el.alter[1]
             IN  /\ alter \in {0, 1}
                 /\ (el.octave + 1) * 12 + PitchClass(el.step) + alter
                        = midi_notes[1].notes[k]

\* the notes of a chord on a flat root, one of them written with a sharp
C9_Witness ==
    /\ midi_notes # <<>>
    /\ midi_notes[1].ok
    /\ chord_notes # <<>>
    /\ Len(sym) >= 2
    /\ sym[2] = "b"
    /\ \E k \in 1..Len(chord_notes[1].measure.children) :
          chord_notes[1].measure.children[k].pitch[1].alter = <<1>>

----------------------------------------------------------------------------
(* C10: for every parsed chord, _chord_to_midi_notes returns root + i for   *)
(* each interval i of the chord's kind, ascending, where root =             *)
(* (CHORD_ROOT_OCTAVE + 1) x 12 + pitch_class(step) + alteration; "Am7"     *)
(* gives 57, 60, 64, 67.                                                    *)
C10_RootPositionVoicing ==
    (harmony # <<>> /\ harmony[1].ok /\ midi_notes # <<>>) =>
        LET root == (CHORD_ROOT_OCTAVE + 1) * 12
                        + PitchClass(harmony[1].step) + harmony[1].alter
            intervals == IntervalsOf(harmony[1].kind)
        IN  /\ midi_notes[1].ok
            /\ Len(midi_notes[1].notes) = Len(intervals)
            /\ \A k \in 1..Len(intervals) : midi_notes[1].notes[k] = root + intervals[k]
            /\ \A k \in 1..(Len(intervals) - 1) :
                  midi_notes[1].notes[k] < midi_notes[1].notes[k + 1]
            /\ sym = S_Am7 => midi_notes[1].notes = <<57, 60, 64, 67>>

\* "Am7" parsed and voiced
C10_Witness ==
    /\ sym = S_Am7
    /\ harmony # <<>>
    /\ midi_notes # <<>>
    /\ midi_notes[1].ok

----------------------------------------------------------------------------
(* C7: when an export operation of the MusicXML generator raises, the run   *)
(* has written no file.                                                     *)
C7_NoFileWhenExportRaises ==
    (pc = "raised" /\ call \in {"musicxml.export_full_song",
                                "musicxml.export_full_song_as_section_parts",
                                "musicxml.export_segments",
                                "musicxml.main:export_full_song",
                                "musicxml.main:export_full_song_as_section_parts",
                                "musicxml.main:export_segments"}) =>
        files = NoFiles

----------------------------------------------------------------------------
(* Vocabulary of the property of the labels *)

IsAttributes(el) == el.tag = "attributes"
IsTempo(el) == el.tag = "direction" /\ el.type = "metronome"

\* the measure numbers of a part that hold an element of the kind
MeasuresWith(measures, Kind(_)) ==
    {n \in 1..Len(measures) : SelectSeq(measures[n].children, Kind) # <<>>}

\* the measure numbers of a part that hold a label of the name
MeasuresLabelled(measures, name) ==
    {n \in 1..Len(measures) :
        \E j \in 1..Len(Labels(measures[n])) : Labels(measures[n])[j].text = name}

\* a label carries a bar count when the element holds it beside its words
CarriesBars(el, n) == "bars" \in DOMAIN el /\ el.bars = n

\* section k has one label, on its first bar only, of its name
OneLabelOnFirstBar(measures, song, k) ==
    /\ MeasuresLabelled(measures, song[k].name) = {BarsBeforeSection(song, k) + 1}
    /\ Len(Labels(measures[BarsBeforeSection(song, k) + 1])) = 1

\* attributes and tempo once, in measure 1
AttributesOnceInFirstMeasure(measures) ==
    /\ MeasuresWith(measures, IsAttributes) = {1}
    /\ MeasuresWith(measures, IsTempo) = {1}
    /\ Len(SelectSeq(measures[1].children, IsAttributes)) = 1
    /\ Len(SelectSeq(measures[1].children, IsTempo)) = 1

----------------------------------------------------------------------------
(* C11: in the measures build_musicxml writes, every section of the chart,  *)
(* a section of no chords included, has exactly one label, on the first bar *)
(* of the section and on no other, carrying the section's name and its bar  *)
(* count; and the attributes and tempo appear once, in the first measure.   *)
C11_OneLabelPerSection ==
    Written(XmlFullPath) =>
        LET measures == files[XmlFullPath].parts[1].measures
        IN  /\ \A k \in 1..Len(chart) :
                  /\ OneLabelOnFirstBar(measures, chart, k)
                  /\ \A j \in 1..Len(Labels(measures[BarsBeforeSection(chart, k) + 1])) :
                        CarriesBars(Labels(measures[BarsBeforeSection(chart, k) + 1])[j],
                                    Len(chart[k].chords))
            /\ AttributesOnceInFirstMeasure(measures)

----------------------------------------------------------------------------
(* Vocabulary of the timing properties of a track *)

\* the ticks a track spans: the sum of its delta times
TrackTicks(track) == AbsTick(track, Len(track))

NoteOnTicks(track) ==
    {AbsTick(track, i) : i \in {j \in 1..Len(track) : IsNoteOn(track[j])}}

NoteOffTicks(track) ==
    {AbsTick(track, i) : i \in {j \in 1..Len(track) : IsNoteOff(track[j])}}

\* note-on i of the track is released by a later note-off of its pitch
HasOff(track, i) ==
    \E j \in (i + 1)..Len(track) : IsNoteOff(track[j]) /\ track[j].note = track[i].note

\* the first note-off of the pitch of note-on i after it
MatchingOff(track, i) ==
    CHOOSE j \in (i + 1)..Len(track) :
        /\ IsNoteOff(track[j]) /\ track[j].note = track[i].note
        /\ \A m \in (i + 1)..(j - 1) :
              ~(IsNoteOff(track[m]) /\ track[m].note = track[i].note)

\* the tick at which the note of note-on i stops: its note-off, or never
\* within the bars of the chart
ReleaseTick(track, i, total_bars) ==
    IF HasOff(track, i) THEN AbsTick(track, MatchingOff(track, i))
    ELSE (total_bars + 1) * TICKS_PER_BAR

\* the bars (0-based) of the chart during which a note of the track sounds
SoundingBars(track, total_bars) ==
    {b \in 0..(total_bars - 1) :
        \E i \in 1..Len(track) :
            /\ IsNoteOn(track[i])
            /\ AbsTick(track, i) < (b + 1) * TICKS_PER_BAR
            /\ ReleaseTick(track, i, total_bars) > b * TICKS_PER_BAR}

\* the notes of the track lie in the window of len bars from start_bar: the
\* first note-on at its start, the last note-off at its end
NotesInWindow(track, start_bar, len) ==
    /\ \A x \in NoteOnTicks(track) :
          start_bar * TICKS_PER_BAR <= x /\ x < (start_bar + len) * TICKS_PER_BAR
    /\ \A x \in NoteOffTicks(track) :
          start_bar * TICKS_PER_BAR < x /\ x <= (start_bar + len) * TICKS_PER_BAR
    /\ len > 0 =>
          /\ start_bar * TICKS_PER_BAR \in NoteOnTicks(track)
          /\ (start_bar + len) * TICKS_PER_BAR \in NoteOffTicks(track)

\* no two of the tracks from the second on sound during the same bar
NoSharedBar(tracks, total_bars) ==
    \A p, q \in 2..Len(tracks) :
        p # q => SoundingBars(tracks[p], total_bars)
                    \cap SoundingBars(tracks[q], total_bars) = {}

----------------------------------------------------------------------------
(* C12 as stated: in the file of export_full_song_as_section_tracks every   *)
(* section's track spans the whole timeline, its delta-ticks summing to the *)
(* total bars x TICKS_PER_BAR; its first note-on is at start_bar x          *)
(* TICKS_PER_BAR and its last note-off at (start_bar + len) x               *)
(* TICKS_PER_BAR; and no two section tracks sound during the same bar.      *)
C12_SectionTracksSpanTimeline ==
    Written(MidiTracksPath) =>
        /\ Len(files[MidiTracksPath].tracks) = Len(chart) + 1
        /\ \A k \in 1..Len(chart) :
              /\ TrackTicks(files[MidiTracksPath].tracks[k + 1])
                    = ChartBars(chart) * TICKS_PER_BAR
              /\ NotesInWindow(files[MidiTracksPath].tracks[k + 1],
                               BarsBeforeSection(chart, k), Len(chart[k].chords))
        /\ NoSharedBar(files[MidiTracksPath].tracks, ChartBars(chart))

(* C12 amended: every section's track ends with the last note-off of the    *)
(* section, its delta-ticks summing to (start_bar + len) x TICKS_PER_BAR,   *)
(* and to 0 for a section of no chords, whose track holds no note; the      *)
(* first note-on is at start_bar x TICKS_PER_BAR, the last note-off at      *)
(* (start_bar + len) x TICKS_PER_BAR; the track sounds during exactly the   *)
(* bars of its section, so no two section tracks sound during the same bar. *)
C12_SectionTracksEndWithSection ==
    Written(MidiTracksPath) =>
        /\ Len(files[MidiTracksPath].tracks) = Len(chart) + 1
        /\ \A k \in 1..Len(chart) :
              /\ TrackTicks(files[MidiTracksPath].tracks[k + 1])
                    = IF chart[k].chords = <<>> THEN 0
                      ELSE (BarsBeforeSection(chart, k) + Len(chart[k].chords))
                              * TICKS_PER_BAR
              /\ NotesInWindow(files[MidiTracksPath].tracks[k + 1],
                               BarsBeforeSection(chart, k), Len(chart[k].chords))
              /\ SoundingBars(files[MidiTracksPath].tracks[k + 1], ChartBars(chart))
                    = {b \in 0..(ChartBars(chart) - 1) :
                          /\ BarsBeforeSection(chart, k) <= b
                          /\ b < BarsBeforeSection(chart, k) + Len(chart[k].chords)}
        /\ NoSharedBar(files[MidiTracksPath].tracks, ChartBars(chart))

\* section tracks written for a chart of three sections, the second of no
\* chords, the first ending before the timeline does
C12_Witness ==
    /\ Written(MidiTracksPath)
    /\ Len(chart) = 3
    /\ Len(chart[1].chords) = 1
    /\ chart[2].chords = <<>>
    /\ Len(chart[3].chords) = 2
    /\ TrackTicks(files[MidiTracksPath].tracks[2]) = TICKS_PER_BAR
    /\ TrackTicks(files[MidiTracksPath].tracks[4]) = 3 * TICKS_PER_BAR

----------------------------------------------------------------------------
(* Vocabulary of the tick cursor property *)

\* the number of chords _append_chords was given for track n of the file at
\* path: the whole chart for the chord track of a full-song file, the
\* section's chords for a section track and for a segment file
BarsOfTrack(path, n) ==
    IF path = MidiFullPath THEN ChartBars(chart)
    ELSE IF path = MidiMarkersPath THEN (IF n = 2 THEN ChartBars(chart) ELSE 0)
    ELSE IF path = MidiTracksPath THEN (IF n >= 2 THEN Len(chart[n - 1].chords) ELSE 0)
    ELSE Len(chart[path.idx].chords)

\* the chord (0-based) message i belongs to: note-ons by the runs of note-ons
\* up to i, note-offs by the runs of note-offs up to i
ChordOfNoteOn(track, i) ==
    Cardinality({j \in 1..i : IsNoteOn(track[j]) /\ (j = 1 \/ ~IsNoteOn(track[j - 1]))}) - 1

ChordOfNoteOff(track, i) ==
    Cardinality({j \in 2..i : IsNoteOff(track[j]) /\ IsNoteOn(track[j - 1])}) - 1

\* the note-ons not yet released after message i of the track
Sounding(track, i) ==
    {j \in 1..i :
        /\ IsNoteOn(track[j])
        /\ ~\E m \in (j + 1)..i : IsNoteOff(track[m]) /\ track[m].note = track[j].note}

\* the cursor of a track of n chords from offset s advances one bar a chord;
\* the note-off of pitch 0 that closes the track of build_midi_from_chords
\* belongs to no chord
CursorAdvancesByBar(track, n, s) ==
    /\ ChordGroups(track) = n
    /\ \A i \in 1..Len(track) :
          /\ IsNoteOn(track[i]) =>
                /\ AbsTick(track, i) = s + ChordOfNoteOn(track, i) * TICKS_PER_BAR
                /\ HasOff(track, i)
                /\ AbsTick(track, MatchingOff(track, i))
                      = AbsTick(track, i) + TICKS_PER_BAR
          /\ (IsNoteOff(track[i]) /\ track[i].note # 0) =>
                AbsTick(track, i) = s + (ChordOfNoteOff(track, i) + 1) * TICKS_PER_BAR
          /\ \A a, b \in Sounding(track, i) :
                ChordOfNoteOn(track, a) = ChordOfNoteOn(track, b)
    /\ Sounding(track, Len(track)) = {}

----------------------------------------------------------------------------
(* C13: in every track _append_chords builds from n chords with offset s,   *)
(* the k-th chord (0-based) has its note-ons at tick s + k x TICKS_PER_BAR  *)
(* and its note-offs at s + (k + 1) x TICKS_PER_BAR, with TICKS_PER_BAR =   *)
(* TICKS_PER_BEAT x BEATS_PER_BAR = 1920; the notes sounding at any point   *)
(* of the track belong to one chord, every note-on has a note-off of its    *)
(* pitch one bar later, and no note sounds after the last event.            *)
C13_CursorAdvancesOneBarPerChord ==
    /\ TICKS_PER_BAR = TICKS_PER_BEAT * BEATS_PER_BAR
    /\ TICKS_PER_BAR = 1920
    /\ \A p \in MidiPaths : \A n \in 1..Len(files[p].tracks) :
          CursorAdvancesByBar(files[p].tracks[n], BarsOfTrack(p, n), StartOffsetOf(p, n))

\* a section track of two different chords that starts one bar into the song
C13_Witness ==
    /\ Written(MidiTracksPath)
    /\ Len(chart) >= 2
    /\ Len(chart[1].chords) = 1
    /\ chart[2].chords \in {<<S_Am7, S_G>>, <<S_G, S_Am7>>}
    /\ 3 * TICKS_PER_BAR \in NoteOffTicks(files[MidiTracksPath].tracks[3])

====
